---- MODULE Spec2Model ----
(***************************************************************************)
(* A model of package iso8601duration (duration.go): the parser            *)
(* FromString, the formatter String / HasTimePart, and the two resolvers   *)
(* ToEstimatedDuration and ToDuration.                                     *)
(*                                                                         *)
(* Text is a sequence of one-character strings.  Go's int is modelled at   *)
(* the width of a 32-bit build (MaxInt), time.Duration at its 64 bits.     *)
(***************************************************************************)
EXTENDS Integers, Sequences, FiniteSets, TLC

VARIABLES
    pc,     \* position of the caller: "start" before the call, "done" after it
    dur,    \* the text handed to FromString
    res,    \* what FromString returned: [nil, val, err]
    recv,   \* the Duration a method is called on
    out,    \* what String returned
    rt,     \* what FromString(recv.String()) returned
    span,   \* what ToEstimatedDuration or ToDuration returned
    anchor, \* the instant handed to ToDuration
    heap,      \* the Durations in memory, by address
    published, \* the addresses callers hold
    th,        \* each thread's call in progress
    pkg        \* the package-level variables tmpl and full

vars == <<pc, dur, res, recv, out, rt, span, anchor, heap, published, th, pkg>>


(***************************************************************************)
(* Text helpers                                                            *)
(***************************************************************************)
Digits == <<"0", "1", "2", "3", "4", "5", "6", "7", "8", "9">>

IsDigit(c) == \E i \in 1..10 : Digits[i] = c

DigitVal(c) == (CHOOSE i \in 1..10 : Digits[i] = c) - 1

SetMax(S) == CHOOSE x \in S : \A y \in S : y <= x

SetMin(S) == CHOOSE x \in S : \A y \in S : x <= y

(***************************************************************************)
(* type Duration struct { Years, Months, Weeks, Days, Hours, Minutes,      *)
(* Seconds int }                                                           *)
(***************************************************************************)
Fields == <<"Years", "Months", "Weeks", "Days", "Hours", "Minutes", "Seconds">>

\* &Duration{}: every field zero
ZeroDuration ==
    [Years |-> 0, Months |-> 0, Weeks |-> 0, Days |-> 0,
     Hours |-> 0, Minutes |-> 0, Seconds |-> 0]

\* the largest int (a build whose int has 32 bits)
MaxInt == 2147483647

(***************************************************************************)
(* full = regexp.MustCompile(`P((?P<year>\d+)Y)?...`): the pattern is not  *)
(* anchored, so a match is looked for at the leftmost position where one   *)
(* exists; every group after the literal P is optional and greedy.         *)
(***************************************************************************)

\* full.SubexpNames(), index i of Go at position i + 1
SubexpNames ==
    <<"", "", "year", "", "month", "", "week", "", "day",
      "", "", "hour", "", "minute", "", "second">>

\* RunEnd with \d in place of \d+: one digit at most
RunEndOneDigit(s, i) ==
    IF i <= Len(s) /\ IsDigit(s[i]) THEN i ELSE i - 1

\* \d+ at position i: the index of the last digit of the maximal run (i - 1 if none)
RunEnd(s, i) ==
    SetMax({j \in (i - 1)..Len(s) : \A k \in i..j : IsDigit(s[k])})

\* ((?P<name>\d+)L)? at position i: the whole group, the named group, and
\* the position after it; an optional group that does not match is empty
Group(s, i, letter) ==
    LET e == RunEnd(s, i)
    IN  IF e >= i /\ e + 1 <= Len(s) /\ s[e + 1] = letter
        THEN [outer |-> SubSeq(s, i, e + 1), part |-> SubSeq(s, i, e), next |-> e + 2]
        ELSE [outer |-> <<>>, part |-> <<>>, next |-> i]

\* the positions at which the pattern matches: wherever there is a P
MatchStarts(s) == {i \in 1..Len(s) : s[i] = "P"}

\* full.MatchString(dur)
MatchString(s) == MatchStarts(s) # {}

\* full.FindStringSubmatch(dur) for a text that matches: the leftmost match
\* and its 15 groups, as the texts they captured
FindStringSubmatch(s) ==
    LET p  == SetMin(MatchStarts(s))
        y  == Group(s, p + 1, "Y")
        mo == Group(s, y.next, "M")
        w  == Group(s, mo.next, "W")
        dd == Group(s, w.next, "D")
        hasT == dd.next <= Len(s) /\ s[dd.next] = "T"
        h  == IF hasT THEN Group(s, dd.next + 1, "H")
                      ELSE [outer |-> <<>>, part |-> <<>>, next |-> dd.next]
        mi == IF hasT THEN Group(s, h.next, "M") ELSE h
        se == IF hasT THEN Group(s, mi.next, "S") ELSE h
        tpart == IF hasT THEN SubSeq(s, dd.next, se.next - 1) ELSE <<>>
    IN  <<SubSeq(s, p, se.next - 1),
          y.outer, y.part, mo.outer, mo.part, w.outer, w.part, dd.outer, dd.part,
          tpart, h.outer, h.part, mi.outer, mi.part, se.outer, se.part>>

(***************************************************************************)
(* strconv.Atoi on a run of digits: a value beyond the int range is a      *)
(* *strconv.NumError (ErrRange), otherwise val = val*10 + digit.           *)
(***************************************************************************)
RECURSIVE StripZeros(_)
StripZeros(part) ==
    IF Len(part) > 1 /\ part[1] = "0" THEN StripZeros(Tail(part)) ELSE part

\* the decimal digits of MaxInt
MaxIntDigits == <<"2", "1", "4", "7", "4", "8", "3", "6", "4", "7">>

\* a < b for two digit runs of the same length
RECURSIVE DigitsLess(_, _)
DigitsLess(a, b) ==
    IF a = <<>> THEN FALSE
    ELSE IF a[1] # b[1] THEN DigitVal(a[1]) < DigitVal(b[1])
    ELSE DigitsLess(Tail(a), Tail(b))

\* OutOfRange with MaxInt itself out of range
OutOfRangeFromMaxInt(part) ==
    LET t == StripZeros(part)
    IN  \/ Len(t) > Len(MaxIntDigits)
        \/ Len(t) = Len(MaxIntDigits) /\ ~DigitsLess(t, MaxIntDigits)

OutOfRange(part) ==
    LET t == StripZeros(part)
    IN  \/ Len(t) > Len(MaxIntDigits)
        \/ Len(t) = Len(MaxIntDigits) /\ DigitsLess(MaxIntDigits, t)

RECURSIVE AtoiLoop(_, _)
AtoiLoop(part, n) ==
    IF part = <<>> THEN n ELSE AtoiLoop(Tail(part), n * 10 + DigitVal(part[1]))

Atoi(part) ==
    IF OutOfRange(part) THEN [val |-> 0, err |-> "NumError"]
    ELSE [val |-> AtoiLoop(part, 0), err |-> "nil"]

(***************************************************************************)
(* FromString                                                              *)
(***************************************************************************)
\* SetField with the minute group stored as Months
SetFieldMinuteAsMonth(d, name, val) ==
    CASE name = "year"   -> [d EXCEPT !.Years = val]
      [] name = "month"  -> [d EXCEPT !.Months = val]
      [] name = "week"   -> [d EXCEPT !.Weeks = val]
      [] name = "day"    -> [d EXCEPT !.Days = val]
      [] name = "hour"   -> [d EXCEPT !.Hours = val]
      [] name = "minute" -> [d EXCEPT !.Months = val]
      [] name = "second" -> [d EXCEPT !.Seconds = val]

\* the switch on the group's name
SetField(d, name, val) ==
    CASE name = "year"   -> [d EXCEPT !.Years = val]
      [] name = "month"  -> [d EXCEPT !.Months = val]
      [] name = "week"   -> [d EXCEPT !.Weeks = val]
      [] name = "day"    -> [d EXCEPT !.Days = val]
      [] name = "hour"   -> [d EXCEPT !.Hours = val]
      [] name = "minute" -> [d EXCEPT !.Minutes = val]
      [] name = "second" -> [d EXCEPT !.Seconds = val]

\* the loop over re.SubexpNames(), from Go's index i on, with d as built so far
RECURSIVE FromStringLoop(_, _, _)
FromStringLoop(match, i, d) ==
    IF i >= Len(SubexpNames) THEN [nil |-> FALSE, val |-> d, err |-> "nil"]
    ELSE LET name == SubexpNames[i + 1]
             part == match[i + 1]
         IN  IF i = 0 \/ name = "" \/ part = <<>>
             THEN FromStringLoop(match, i + 1, d)
             ELSE LET a == Atoi(part)
                  IN  IF a.err # "nil"
                      THEN [nil |-> TRUE, val |-> ZeroDuration, err |-> a.err]
                      ELSE FromStringLoop(match, i + 1, SetField(d, name, a.val))

\* FromString with the pattern required to match the whole text
FromStringWholeText(s) ==
    IF MatchString(s) /\ FindStringSubmatch(s)[1] = s
    THEN FromStringLoop(FindStringSubmatch(s), 0, ZeroDuration)
    ELSE [nil |-> TRUE, val |-> ZeroDuration, err |-> "ErrBadFormat"]

FromString(s) ==
    IF MatchString(s)
    THEN FromStringLoop(FindStringSubmatch(s), 0, ZeroDuration)
    ELSE [nil |-> TRUE, val |-> ZeroDuration, err |-> "ErrBadFormat"]

(***************************************************************************)
(* String: the template tmpl executed on d.  {{if .X}} is true of a        *)
(* nonzero int, {{.X}} prints the int in decimal.                          *)
(***************************************************************************)
RECURSIVE UItoa(_)
UItoa(n) ==
    IF n < 10 THEN <<Digits[n + 1]>>
    ELSE UItoa(n \div 10) \o <<Digits[(n % 10) + 1]>>

\* fmt's printing of an int
Itoa(n) == IF n < 0 THEN <<"-">> \o UItoa(0 - n) ELSE UItoa(n)

\* HasTimePart without the Seconds
HasTimePartNoSeconds(d) == d.Hours # 0 \/ d.Minutes # 0

HasTimePart(d) == d.Hours # 0 \/ d.Minutes # 0 \/ d.Seconds # 0

\* {{if .X}}{{.X}}L{{end}}
TmplField(x, letter) == IF x # 0 THEN Itoa(x) \o <<letter>> ELSE <<>>

String(d) ==
    <<"P">>
    \o TmplField(d.Years, "Y")
    \o TmplField(d.Months, "M")
    \o TmplField(d.Weeks, "W")
    \o TmplField(d.Days, "D")
    \o (IF HasTimePart(d) THEN <<"T">> ELSE <<>>)
    \o TmplField(d.Hours, "H")
    \o TmplField(d.Minutes, "M")
    \o TmplField(d.Seconds, "S")

(***************************************************************************)
(* The grammar P[nY][nM][nW][nD][T[nH][nM][nS]] stated on its own: which   *)
(* texts have that form as a whole, and the Duration such a text           *)
(* describes.                                                              *)
(***************************************************************************)
DateLetters == <<"Y", "M", "W", "D">>

TimeLetters == <<"H", "M", "S">>

UnitLetters == {"Y", "M", "W", "D", "H", "S"}

\* the subsequences of q
SubSeqs(q) ==
    {SelectSeq([i \in 1..Len(q) |-> <<q[i], m[i]>>], LAMBDA x : x[2]) :
        m \in [1..Len(q) -> BOOLEAN]}

Firsts(q) == [i \in 1..Len(q) |-> q[i][1]]

\* the orders of letters the grammar allows
GrammarLetters ==
    {<<"P">> \o Firsts(a) : a \in SubSeqs(DateLetters)}
    \cup {<<"P">> \o Firsts(a) \o <<"T">> \o Firsts(b) :
            a \in SubSeqs(DateLetters), b \in SubSeqs(TimeLetters)}

NotDigit(c) == ~IsDigit(c)

\* the characters of s that are not digits, in order
Letters(s) == SelectSeq(s, NotDigit)

Conforms(s) ==
    /\ Letters(s) \in GrammarLetters
    /\ s[1] = "P"
    /\ \A i \in 1..Len(s) :
        /\ IsDigit(s[i]) =>
             i < Len(s) /\ (IsDigit(s[i + 1]) \/ s[i + 1] \in UnitLetters)
        /\ s[i] \in UnitLetters => IsDigit(s[i - 1])

\* the digit run that ends right before position i
RunBefore(s, i) ==
    SubSeq(s, SetMin({j \in 1..i : \A k \in j..(i - 1) : IsDigit(s[k])}), i - 1)

\* the digit runs of s
Runs(s) == {RunBefore(s, i) : i \in {j \in 2..Len(s) : NotDigit(s[j])}} \ {<<>>}

\* the run without its leading zeros (empty for a run of zeros)
Significant(run) ==
    SubSeq(run, SetMin({j \in 1..(Len(run) + 1) : \A k \in 1..(j - 1) : run[k] = "0"}),
           Len(run))

RECURSIVE Pow10(_)
Pow10(k) == IF k = 0 THEN 1 ELSE 10 * Pow10(k - 1)

\* the number a run of at most 9 significant digits denotes
SmallValue(t) ==
    LET Sum[k \in 0..Len(t)] ==
            IF k = 0 THEN 0
            ELSE Sum[k - 1] + DigitVal(t[k]) * Pow10(Len(t) - k)
    IN  Sum[Len(t)]

\* the run denotes a number of at most MaxInt = 214748364 * 10 + 7
FitsInt(run) ==
    LET t == Significant(run)
    IN  \/ Len(t) <= 9
        \/ /\ Len(t) = 10
           /\ \/ SmallValue(SubSeq(t, 1, 9)) < 214748364
              \/ SmallValue(SubSeq(t, 1, 9)) = 214748364 /\ DigitVal(t[10]) <= 7

\* the number a run that fits denotes
DecimalValue(run) ==
    LET t == Significant(run)
    IN  IF Len(t) <= 9 THEN SmallValue(t)
        ELSE SmallValue(SubSeq(t, 1, 9)) * 10 + DigitVal(t[10])

\* where the T of s is (past the end if there is none)
TPos(s) == SetMin({i \in 1..(Len(s) + 1) : i = Len(s) + 1 \/ s[i] = "T"})

\* the value s gives a unit: its letter in the date part or in the time part
UnitValue(s, letter, inTime) ==
    LET at == {i \in 1..Len(s) : s[i] = letter /\ ((i > TPos(s)) <=> inTime)}
    IN  IF at = {} THEN 0 ELSE DecimalValue(RunBefore(s, CHOOSE i \in at : TRUE))

\* the Duration a conforming text describes
Described(s) ==
    [Years   |-> UnitValue(s, "Y", FALSE), Months  |-> UnitValue(s, "M", FALSE),
     Weeks   |-> UnitValue(s, "W", FALSE), Days    |-> UnitValue(s, "D", FALSE),
     Hours   |-> UnitValue(s, "H", TRUE),  Minutes |-> UnitValue(s, "M", TRUE),
     Seconds |-> UnitValue(s, "S", TRUE)]

\* the longest prefix of s of the grammar's form, for s that begins with P
LongestPrefix(s) ==
    SubSeq(s, 1, SetMax({k \in 1..Len(s) : Conforms(SubSeq(s, 1, k))}))

(***************************************************************************)
(* The texts FromString is applied to                                      *)
(***************************************************************************)
MaxShort == 4

ShortAlphabet == {"P", "T", "1", "M", "S", "x"}

\* every text over ShortAlphabet of at most MaxShort characters
Shorts == UNION {[1..n -> ShortAlphabet] : n \in 0..MaxShort}

Unit(run, letter) == IF run = <<>> THEN <<>> ELSE run \o <<letter>>

Core(y, mo, w, dd, t, h, mi, se) ==
    <<"P">> \o Unit(y, "Y") \o Unit(mo, "M") \o Unit(w, "W") \o Unit(dd, "D")
    \o (IF t THEN <<"T">> ELSE <<>>)
    \o Unit(h, "H") \o Unit(mi, "M") \o Unit(se, "S")

Opt(b, run) == IF b THEN run ELSE <<>>

\* each unit present or absent, with and without the T
Combos ==
    {Core(Opt(b[1], <<"1">>), Opt(b[2], <<"2">>), Opt(b[3], <<"3">>),
          Opt(b[4], <<"4">>), b[8], Opt(b[5], <<"3">>), Opt(b[6], <<"4">>),
          Opt(b[7], <<"5">>)) : b \in [1..8 -> BOOLEAN]}

DigitRuns ==
    {<<"0">>, <<"0", "7">>, <<"1", "2">>,
     <<"9", "9", "9", "9", "9", "9", "9", "9", "9">>,
     <<"2", "1", "4", "7", "4", "8", "3", "6", "4", "7">>,
     <<"0", "2", "1", "4", "7", "4", "8", "3", "6", "4", "7">>,
     <<"2", "1", "4", "7", "4", "8", "3", "6", "4", "8">>,
     <<"2", "1", "4", "7", "4", "8", "3", "6", "5", "0">>,
     <<"3", "0", "0", "0", "0", "0", "0", "0", "0", "0">>,
     <<"1", "0", "0", "0", "0", "0", "0", "0", "0", "0", "0">>}

\* one unit with each digit run, and a second unit after it
Singles ==
    {<<"P">> \o r \o <<l>> : r \in DigitRuns, l \in {"Y", "M", "W", "D"}}
    \cup {<<"P", "T">> \o r \o <<l>> : r \in DigitRuns, l \in {"H", "M", "S"}}
    \cup {<<"P", "1", "Y">> \o r \o <<"D", "T", "6", "S">> : r \in DigitRuns}
    \cup {<<"P", "5", "M", "T">> \o r \o <<"M">> : r \in DigitRuns}

Prefixes == {<<>>, <<"x">>, <<"a", "s", "d", "f">>, <<"1", "Y">>, <<"T">>}

Suffixes ==
    {<<>>, <<"x">>, <<"T">>, <<"5", "H">>, <<"2", "Y">>, <<"P", "9", "D">>, <<"7">>}

Middles ==
    {<<>>, <<"a", "s", "d", "f">>, <<"P">>, <<"P", "1", "W">>, <<"P", "T">>,
     <<"P", "1", "D", "2", "Y">>, <<"P", "2", "M", "T", "1", "H">>,
     <<"P", "1", "Y", "2", "M", "3", "W", "4", "D", "T", "3", "H", "4", "M", "5", "S">>,
     <<"P", "2", "1", "4", "7", "4", "8", "3", "6", "4", "8", "W">>}

Affixed == {a \o m \o z : a \in Prefixes, m \in Middles, z \in Suffixes}

Inputs == Shorts \cup Combos \cup Singles \cup Affixed

(***************************************************************************)
(* The caller of FromString: a text is chosen, FromString is applied.      *)
(***************************************************************************)
NoResult == [nil |-> TRUE, val |-> ZeroDuration, err |-> "nil"]

\* the anchor of a caller that passes none: 1970-01-01 00:00:00 UTC
NoAnchor == [unix |-> <<0, 0>>, loc |-> [name |-> "UTC", first |-> 0, tx |-> <<>>]]

\* a single caller: one Duration in memory, no thread at work
NoThreads ==
    /\ heap = <<ZeroDuration>>
    /\ published = {1}
    /\ th = <<>>
    /\ pkg = [tmpl |-> "duration", full |-> SubexpNames]

InitParse ==
    /\ pc = "start"
    /\ NoThreads
    /\ dur \in Inputs
    /\ res = NoResult
    /\ recv = ZeroDuration
    /\ out = <<>>
    /\ rt = NoResult
    /\ span = <<>>
    /\ anchor = NoAnchor

CallFromString ==
    /\ pc = "start"
    /\ res' = FromString(dur)
    /\ pc' = "done"
    /\ UNCHANGED <<dur, recv, out, rt, span, anchor, heap, published, th, pkg>>

NextParse == CallFromString

SpecParse == InitParse /\ [][NextParse]_vars

\* C1: a text whose first character is not P (the empty text included)
\* yields ErrBadFormat and no Duration
C1_NoLeadingP_BadFormat ==
    (pc = "done" /\ (dur = <<>> \/ dur[1] # "P"))
        => (res.nil /\ res.err = "ErrBadFormat")

C8_OverflowIsBadFormat ==
    (pc = "done" /\ dur # <<>> /\ dur[1] = "P"
        /\ \E r \in Runs(LongestPrefix(dur)) : ~FitsInt(r))
        => (res.nil /\ res.err = "ErrBadFormat")

(***************************************************************************)
(* The Durations String is applied to, and the caller that formats one     *)
(* and parses the text back.                                               *)
(***************************************************************************)
MaxVal == 12

Duration(y, mo, w, dd, h, mi, se) ==
    [Years |-> y, Months |-> mo, Weeks |-> w, Days |-> dd,
     Hours |-> h, Minutes |-> mi, Seconds |-> se]

\* every combination of absent, one and a two-digit count
Mixed ==
    {Duration(v[1], v[2], v[3], v[4], v[5], v[6], v[7]) :
        v \in [1..7 -> {0, 1, MaxVal}]}

EdgeValues == {0 - MaxVal, 0 - 1, 0, 7, 100, 1000000000, MaxInt - 1, MaxInt}

\* one date field and one time field, each with an edge value
Edges ==
    {[[ZeroDuration EXCEPT ![Fields[i]] = a] EXCEPT ![Fields[j]] = b] :
        i \in 1..4, j \in 5..7, a \in EdgeValues, b \in EdgeValues}

Durations == Mixed \cup Edges

InitFormat ==
    /\ pc = "start"
    /\ NoThreads
    /\ recv \in Durations
    /\ dur = <<>>
    /\ res = NoResult
    /\ out = <<>>
    /\ rt = NoResult
    /\ span = <<>>
    /\ anchor = NoAnchor

\* out := recv.String()
CallString ==
    /\ pc = "start"
    /\ out' = String(recv)
    /\ pc' = "formatted"
    /\ UNCHANGED <<dur, res, recv, rt, span, anchor, heap, published, th, pkg>>

\* rt := FromString(out)
ParseBack ==
    /\ pc = "formatted"
    /\ rt' = FromString(out)
    /\ pc' = "reparsed"
    /\ UNCHANGED <<dur, res, recv, out, span, anchor, heap, published, th, pkg>>

NextFormat == CallString \/ ParseBack

SpecFormat == InitFormat /\ [][NextFormat]_vars

\* the characters of a text that are neither digits nor a sign
IsLetter(c) == NotDigit(c) /\ c # "-"

\* the position of the k-th letter of s
LetterPos(s, k) ==
    CHOOSE i \in 1..Len(s) :
        IsLetter(s[i]) /\ Cardinality({j \in 1..i : IsLetter(s[j])}) = k

NumLetters(s) == Cardinality({j \in 1..Len(s) : IsLetter(s[j])})

\* a decimal numeral as printed: an optional sign, no leading zero
Canonical(t) ==
    LET ds == IF t # <<>> /\ t[1] = "-" THEN Tail(t) ELSE t
    IN  ds # <<>> /\ ds[1] # "0" /\ \A k \in 1..Len(ds) : IsDigit(ds[k])

SignedValue(t) ==
    IF t[1] = "-" THEN 0 - DecimalValue(Tail(t)) ELSE DecimalValue(t)

\* what the format prescribes for d: the letters in order, each with the
\* field whose value precedes it ("" for the markers P and T)
Prescribed(d) ==
    LET NonZero(u) == d[u[1]] # 0
    IN  << <<"", "P">> >>
        \o SelectSeq(<< <<"Years", "Y">>, <<"Months", "M">>,
                        <<"Weeks", "W">>, <<"Days", "D">> >>, NonZero)
        \o (IF {d.Hours, d.Minutes, d.Seconds} # {0} THEN << <<"", "T">> >> ELSE <<>>)
        \o SelectSeq(<< <<"Hours", "H">>, <<"Minutes", "M">>, <<"Seconds", "S">> >>,
                     NonZero)

\* C3: String returns P, then <value><letter> for each nonzero field of
\* Years, Months, Weeks, Days in that order, then T exactly when a time field
\* is nonzero, then <value><letter> for each nonzero field of Hours, Minutes,
\* Seconds; zero fields emit nothing
C3_StringFormat ==
    (pc # "start") =>
        LET want == Prescribed(recv)
        IN  /\ NumLetters(out) = Len(want)
            /\ out[Len(out)] = want[Len(want)][2]
            /\ \A k \in 1..Len(want) :
                LET p    == LetterPos(out, k)
                    prev == IF k = 1 THEN 0 ELSE LetterPos(out, k - 1)
                    text == SubSeq(out, prev + 1, p - 1)
                IN  /\ out[p] = want[k][2]
                    /\ IF want[k][1] = "" THEN text = <<>>
                       ELSE Canonical(text) /\ SignedValue(text) = recv[want[k][1]]
            /\ (recv = ZeroDuration => out = <<"P">>)
            /\ ({recv.Hours, recv.Minutes, recv.Seconds} = {0}
                    => \A i \in 1..Len(out) : out[i] # "T")

C3_Witness ==
    /\ pc = "formatted"
    /\ recv.Months = 1 /\ recv.Minutes = MaxVal /\ recv.Years = 0
    /\ recv.Weeks = MaxVal /\ recv.Hours = 0 /\ recv.Seconds = 1
    /\ Len(out) > 8

NonNegative(d) == \A i \in 1..7 : d[Fields[i]] >= 0

NonZeroFields(d, S) == {i \in S : d[Fields[i]] # 0}

\* C6: a Duration with non-negative small fields, at most one of them
\* nonzero in the date group and at most one in the time group, is
\* reproduced by FromString(d.String())
C6_WeakRoundTrip ==
    (pc = "reparsed" /\ NonNegative(recv)
        /\ (\A i \in 1..7 : recv[Fields[i]] <= MaxVal)
        /\ Cardinality(NonZeroFields(recv, 1..4)) <= 1
        /\ Cardinality(NonZeroFields(recv, 5..7)) <= 1)
        => (~rt.nil /\ rt.err = "nil" /\ rt.val = recv)

C6_Witness ==
    /\ pc = "reparsed"
    /\ recv.Months = 0 /\ recv.Minutes = MaxVal /\ recv.Weeks = 1
    /\ Cardinality(NonZeroFields(recv, 1..7)) = 2
    /\ rt.val = recv

\* the Durations that differ from d in at most two fields
Rivals(d) ==
    {[[d EXCEPT ![Fields[i]] = a] EXCEPT ![Fields[j]] = b] :
        i \in 1..7, j \in 1..7, a \in {0, 1, MaxVal}, b \in {0, 1, MaxVal}}

\* C10: every Duration with non-negative fields, whichever of them are
\* nonzero, is reproduced by FromString(d.String()); no other such Duration
\* has the same text, and formatting the parsed Duration gives the text again
C10_StrongRoundTrip ==
    (pc = "reparsed" /\ NonNegative(recv))
        => /\ ~rt.nil /\ rt.err = "nil" /\ rt.val = recv
           /\ String(rt.val) = out
           /\ \A d2 \in Rivals(recv) : String(d2) = out => d2 = recv

C10_Witness ==
    /\ pc = "reparsed"
    /\ \A i \in 1..7 : recv[Fields[i]] > 0
    /\ recv.Weeks = MaxVal /\ recv.Months = 1 /\ recv.Minutes = MaxVal
    /\ rt.val = recv

(***************************************************************************)
(* time.Duration: an int64 count of nanoseconds.  A value is kept as its   *)
(* two's-complement bytes, least significant first, so that the arithmetic *)
(* wraps at 64 bits as Go's does; the same arithmetic on more bytes        *)
(* computes sums that do not wrap.                                         *)
(***************************************************************************)
\* bytes of an int64
Int64Bytes == 8

\* bytes that hold every sum of the fields' spans without wrapping
WideBytes == 12

\* the w bytes of n, for 0 <= n <= MaxInt
ToBytes(n, w) ==
    [i \in 1..w |->
        CASE i = 1 -> n % 256
          [] i = 2 -> (n \div 256) % 256
          [] i = 3 -> (n \div 65536) % 256
          [] i = 4 -> n \div 16777216
          [] OTHER -> 0]

\* carries propagated through column sums, the carry out of byte w dropped
RECURSIVE Carry(_, _, _, _)
Carry(cols, i, c, acc) ==
    IF i > Len(cols) THEN acc
    ELSE Carry(cols, i + 1, (cols[i] + c) \div 256, Append(acc, (cols[i] + c) % 256))

\* a + b modulo 2^(8w)
AddW(a, b, w) == Carry([i \in 1..w |-> a[i] + b[i]], 1, 0, <<>>)

\* a * b modulo 2^(8w)
MulW(a, b, w) ==
    LET Col(k) ==
            LET S[i \in 0..k] == IF i = 0 THEN 0 ELSE S[i - 1] + a[i] * b[k + 1 - i]
            IN  S[k]
    IN  Carry([k \in 1..w |-> Col(k)], 1, 0, <<>>)

\* a * n modulo 2^(8w) for an int n >= 0: byte by byte while the products
\* stay small, by the bytes of n otherwise
ScaleW(a, n, w) ==
    IF n < 8388608 THEN Carry([i \in 1..w |-> a[i] * n], 1, 0, <<>>)
    ELSE MulW(a, ToBytes(n, w), w)

\* the sign of an int64
IsNegative64(a) == a[Int64Bytes] >= 128

\* package time's constants, at width w
Nanosecond(w)  == ToBytes(1, w)
Microsecond(w) == ScaleW(Nanosecond(w), 1000, w)
Millisecond(w) == ScaleW(Microsecond(w), 1000, w)
Second(w)      == ScaleW(Millisecond(w), 1000, w)
Minute(w)      == ScaleW(Second(w), 60, w)
Hour(w)        == ScaleW(Minute(w), 60, w)

(***************************************************************************)
(* ToEstimatedDuration, for fields >= 0                                    *)
(***************************************************************************)
\* day := time.Hour * 24
day == ScaleW(Hour(Int64Bytes), 24, Int64Bytes)

\* month with 31 days
month31 == ScaleW(day, 31, Int64Bytes)

\* month := day * 30
month == ScaleW(day, 30, Int64Bytes)

\* year := day * 365
year == ScaleW(day, 365, Int64Bytes)

\* day * 7
week == ScaleW(day, 7, Int64Bytes)

\* the terms added to tot, in the order of the code
EstimatedTerms(d) ==
    <<ScaleW(year, d.Years, Int64Bytes),
      ScaleW(month, d.Months, Int64Bytes),
      ScaleW(week, d.Weeks, Int64Bytes),
      ScaleW(day, d.Days, Int64Bytes),
      ScaleW(Hour(Int64Bytes), d.Hours, Int64Bytes),
      ScaleW(Minute(Int64Bytes), d.Minutes, Int64Bytes),
      ScaleW(Second(Int64Bytes), d.Seconds, Int64Bytes)>>

RECURSIVE SumTerms(_, _)
SumTerms(terms, tot) ==
    IF terms = <<>> THEN tot
    ELSE SumTerms(Tail(terms), AddW(tot, Head(terms), Int64Bytes))

ToEstimatedDuration(d) == SumTerms(EstimatedTerms(d), ToBytes(0, Int64Bytes))

(***************************************************************************)
(* The caller of ToEstimatedDuration                                       *)
(***************************************************************************)
\* counts around the largest span an int64 of nanoseconds holds,
\* 2^63 - 1 ns = 106751 days 23 h 47 min 16.854775807 s
LargeValues == {292, 293, 3558, 3559, 15250, 15251, 106751, 106752,
                2562047, 2562048, 153722867, 153722868, MaxInt}

Large ==
    {[ZeroDuration EXCEPT ![Fields[i]] = a] : i \in 1..7, a \in LargeValues}
    \cup {[[ZeroDuration EXCEPT ![Fields[i]] = a] EXCEPT ![Fields[j]] = b] :
            i \in 1..3, j \in 4..7, a \in {291, 292, MaxInt}, b \in {170, 180, MaxInt}}

\* every combination of absent and present fields, with the count 1 and
\* with the counts MaxVal, MaxVal + 1, ...
Binary ==
    {Duration(v[1], v[2], v[3], v[4], v[5], v[6], v[7]) : v \in [1..7 -> {0, 1}]}

Staggered ==
    {Duration(v[1] * MaxVal, v[2] * (MaxVal + 1), v[3] * (MaxVal + 2),
              v[4] * (MaxVal + 3), v[5] * (MaxVal + 4), v[6] * (MaxVal + 5),
              v[7] * (MaxVal + 6)) : v \in [1..7 -> {0, 1}]}

EstimatedInputs == Binary \cup Staggered \cup Large

InitEstimated ==
    /\ pc = "start"
    /\ NoThreads
    /\ recv \in EstimatedInputs
    /\ span = ToBytes(0, Int64Bytes)
    /\ anchor = NoAnchor
    /\ dur = <<>>
    /\ res = NoResult
    /\ out = <<>>
    /\ rt = NoResult

\* span := recv.ToEstimatedDuration()
CallToEstimatedDuration ==
    /\ pc = "start"
    /\ span' = ToEstimatedDuration(recv)
    /\ pc' = "done"
    /\ UNCHANGED <<dur, res, recv, out, rt, anchor, heap, published, th, pkg>>

NextEstimated == CallToEstimatedDuration

SpecEstimated == InitEstimated /\ [][NextEstimated]_vars

\* the sum the fields stand for, in nanoseconds, without wrapping:
\* (((Years*365 + Months*30 + Weeks*7 + Days) * 24 + Hours) * 60 + Minutes) * 60
\*   + Seconds, in seconds, times 10^9
ExactEstimate(d) ==
    LET W == WideBytes
        B(n) == ToBytes(n, W)
        days == AddW(AddW(ScaleW(B(d.Years), 365, W), ScaleW(B(d.Months), 30, W), W),
                     AddW(ScaleW(B(d.Weeks), 7, W), B(d.Days), W), W)
        hours == AddW(ScaleW(days, 24, W), B(d.Hours), W)
        minutes == AddW(ScaleW(hours, 60, W), B(d.Minutes), W)
        seconds == AddW(ScaleW(minutes, 60, W), B(d.Seconds), W)
    IN  ScaleW(seconds, 1000000000, W)

\* a wide value that is a non-negative int64
FitsInt64(x) ==
    /\ \A i \in (Int64Bytes + 1)..WideBytes : x[i] = 0
    /\ x[Int64Bytes] < 128

\* C4 as stated: for every Duration with non-negative fields the result
\* equals the sum of the fields' fixed spans
C4_EstimateIsSum ==
    (pc = "done" /\ NonNegative(recv))
        => LET sum == ExactEstimate(recv)
           IN  FitsInt64(sum) /\ span = SubSeq(sum, 1, Int64Bytes)

\* C4 amended: the result is that sum wrapped to a signed 64-bit integer;
\* it is the sum itself whenever the sum is at most 2^63 - 1 nanoseconds
C4_EstimateIsWrappedSum ==
    (pc = "done" /\ NonNegative(recv))
        => LET sum == ExactEstimate(recv)
           IN  /\ span = SubSeq(sum, 1, Int64Bytes)
               /\ (FitsInt64(sum) => ~IsNegative64(span))

C4_Witness ==
    /\ pc = "done"
    /\ \A i \in 1..7 : recv[Fields[i]] >= MaxVal
    /\ ~IsNegative64(span)
    /\ span # ToBytes(0, Int64Bytes)

(***************************************************************************)
(* time.Time as ToDuration uses it.  An instant is <<day, sec>>: the days  *)
(* since 1970-01-01 UTC and the second of that day; the nanosecond of the  *)
(* anchor is left out, since AddDate and the additions of whole seconds    *)
(* keep it and Sub cancels it.  A Time is an instant with its Location.    *)
(***************************************************************************)
secondsPerDay == 24 * 3600

\* an instant k seconds later (earlier for k < 0)
Shift(u, k) ==
    <<u[1] + ((u[2] + k) \div secondsPerDay), (u[2] + k) % secondsPerDay>>

Before(u, v) == u[1] < v[1] \/ (u[1] = v[1] /\ u[2] < v[2])

\* a Location: the offset before its first transition and its transitions
\* <<day, sec, offset>> in order of time; past the last one its offset stays
UTC == [name |-> "UTC", first |-> 0, tx |-> <<>>]

\* US Eastern time around 2024: EST, EDT from 2024-03-10 07:00 UTC, EST
\* from 2024-11-03 06:00 UTC
NewYork ==
    [name |-> "America/New_York", first |-> 0 - 5 * 3600,
     tx |-> <<<<19792, 7 * 3600, 0 - 4 * 3600>>, <<20030, 6 * 3600, 0 - 5 * 3600>>>>]

\* Central European time around 2024: CET, CEST from 2024-03-31 01:00 UTC,
\* CET from 2024-10-27 01:00 UTC
Berlin ==
    [name |-> "Europe/Berlin", first |-> 3600,
     tx |-> <<<<19813, 3600, 2 * 3600>>, <<20023, 3600, 3600>>>>]

\* l.lookup(u): the offset in force at u and the period [start, end) it is
\* in force for; hasStart / hasEnd are false for an unbounded side
Lookup(loc, u) ==
    LET past == {i \in 1..Len(loc.tx) : ~Before(u, <<loc.tx[i][1], loc.tx[i][2]>>)}
        n    == IF past = {} THEN 0 ELSE SetMax(past)
    IN  [offset   |-> IF n = 0 THEN loc.first ELSE loc.tx[n][3],
         hasStart |-> n > 0,
         start    |-> IF n > 0 THEN <<loc.tx[n][1], loc.tx[n][2]>> ELSE <<0, 0>>,
         hasEnd   |-> n < Len(loc.tx),
         end      |-> IF n < Len(loc.tx)
                      THEN <<loc.tx[n + 1][1], loc.tx[n + 1][2]>> ELSE <<0, 0>>]

\* the calendar counts days from the first day of a year that follows a
\* multiple of 400, as the time package does; this one is 1601
baseYear == 1601

\* days from 1601-01-01 to 1970-01-01
baseToUnix == 134774

daysPer400Years == 365 * 400 + 97
daysPer100Years == 365 * 100 + 24
daysPer4Years == 365 * 4 + 1

isLeap(yr) == yr % 4 = 0 /\ (yr % 100 # 0 \/ yr % 400 = 0)

\* daysBefore[m]: the days of a non-leap year before month m + 1
daysBefore == <<0, 31, 59, 90, 120, 151, 181, 212, 243, 273, 304, 334, 365>>

\* daysSinceEpoch(year), counted from 1601-01-01
daysSinceEpoch(yr) ==
    LET y0 == yr - baseYear
        n4 == y0 \div 400
        y1 == y0 - 400 * n4
        n1 == y1 \div 100
        y2 == y1 - 100 * n1
        n  == y2 \div 4
        y3 == y2 - 4 * n
    IN  daysPer400Years * n4 + daysPer100Years * n1 + daysPer4Years * n + 365 * y3

\* absDate: the year, month and day of a day counted from 1601-01-01
absDate(days) ==
    LET n4  == days \div daysPer400Years
        d1  == days - daysPer400Years * n4
        c0  == d1 \div daysPer100Years
        c   == c0 - (c0 \div 4)
        d2  == d1 - daysPer100Years * c
        q   == d2 \div daysPer4Years
        d3  == d2 - daysPer4Years * q
        r0  == d3 \div 365
        r   == r0 - (r0 \div 4)
        yr  == baseYear + 400 * n4 + 100 * c + 4 * q + r
        yday == d3 - 365 * r
        leapDay == isLeap(yr) /\ yday = 31 + 29 - 1
        dd  == IF isLeap(yr) /\ yday > 31 + 29 - 1 THEN yday - 1 ELSE yday
        m0  == dd \div 31
        m   == IF dd >= daysBefore[m0 + 2] THEN m0 + 1 ELSE m0
    IN  IF leapDay THEN [year |-> yr, month |-> 2, day |-> 29]
        ELSE [year |-> yr, month |-> m + 1, day |-> dd - daysBefore[m + 1] + 1]

\* norm(hi, lo, base)
norm(hi, lo, base) ==
    LET n1  == IF lo < 0 THEN ((0 - lo - 1) \div base) + 1 ELSE 0
        hi1 == hi - n1
        lo1 == lo + n1 * base
        n2  == IF lo1 >= base THEN lo1 \div base ELSE 0
    IN  <<hi1 + n2, lo1 - n2 * base>>

\* time.Date(year, month, day, hour, min, sec, nsec, loc) with the clock as
\* one count of seconds: month and clock are normalised, day overflows into
\* the following months, and the wall time is then read in loc
Date(yr, mon, dd, clock, loc) ==
    LET ym   == norm(yr, mon - 1, 12)
        y    == ym[1]
        m    == ym[2] + 1
        dc   == norm(dd, clock, secondsPerDay)
        days == daysSinceEpoch(y) + daysBefore[m]
                + (IF isLeap(y) /\ m >= 3 THEN 1 ELSE 0) + (dc[1] - 1)
        unix == <<days - baseToUnix, dc[2]>>
        z1   == Lookup(loc, unix)
        utc  == Shift(unix, 0 - z1.offset)
        off  == IF z1.offset = 0 THEN 0
                ELSE IF \/ (z1.hasStart /\ Before(utc, z1.start))
                        \/ (z1.hasEnd /\ ~Before(utc, z1.end))
                THEN Lookup(loc, utc).offset
                ELSE z1.offset
    IN  [unix |-> Shift(unix, 0 - off), loc |-> loc]

\* t.AddDate(years, months, days): the date and clock t shows in its
\* Location, moved and handed to Date
AddDate(t, years, months, days) ==
    LET wall == Shift(t.unix, Lookup(t.loc, t.unix).offset)
        ymd  == absDate(wall[1] + baseToUnix)
    IN  Date(ymd.year + years, ymd.month + months, ymd.day + days, wall[2], t.loc)

\* t.Add(d) for d of secs whole seconds
Add(t, secs) == [t EXCEPT !.unix = Shift(t.unix, secs)]

\* the largest and the smallest time.Duration
maxDuration == [i \in 1..Int64Bytes |-> IF i = Int64Bytes THEN 127 ELSE 255]
minDuration == [i \in 1..Int64Bytes |-> IF i = Int64Bytes THEN 128 ELSE 0]

\* 0 - a modulo 2^(8w)
NegW(a, w) == AddW([i \in 1..w |-> 255 - a[i]], ToBytes(1, w), w)

\* the seconds from u to t >= u, at width w
SecondsBetween(u, t, w) ==
    LET borrow == IF t[2] < u[2] THEN 1 ELSE 0
    IN  AddW(ScaleW(ToBytes(t[1] - u[1] - borrow, w), secondsPerDay, w),
             ToBytes(t[2] + borrow * secondsPerDay - u[2], w), w)

\* t.Sub(u): the seconds between the two as nanoseconds, or, when that
\* count does not fit (u.Add(d) is not t), minDuration or maxDuration
Sub(t, u) ==
    LET fwd  == ~Before(t.unix, u.unix)
        a    == IF fwd THEN u.unix ELSE t.unix
        b    == IF fwd THEN t.unix ELSE u.unix
        wide == ScaleW(SecondsBetween(a, b, WideBytes), 1000000000, WideBytes)
        d    == SubSeq(wide, 1, Int64Bytes)
    IN  IF FitsInt64(wide) THEN (IF fwd THEN d ELSE NegW(d, Int64Bytes))
        ELSE IF fwd THEN maxDuration ELSE minDuration

(***************************************************************************)
(* ToDuration, for Hours, Minutes and Seconds whose spans fit an int64     *)
(***************************************************************************)
\* ToDuration with the years and the months added in two calendar steps
ToDurationYearsThenMonths(d, from) ==
    LET targetTime ==
            Add(Add(Add(AddDate(AddDate(AddDate(AddDate(from, d.Years, 0, 0),
                                                0, d.Months, 0),
                                        0, 0, 7 * d.Weeks),
                                0, 0, d.Days),
                        d.Hours * 3600),
                    d.Minutes * 60),
                d.Seconds)
    IN  Sub(targetTime, from)

ToDuration(d, from) ==
    LET targetTime ==
            Add(Add(Add(AddDate(AddDate(AddDate(from, d.Years, d.Months, 0),
                                        0, 0, 7 * d.Weeks),
                                0, 0, d.Days),
                        d.Hours * 3600),
                    d.Minutes * 60),
                d.Seconds)
    IN  Sub(targetTime, from)

(***************************************************************************)
(* The caller of ToDuration: an anchor and a Duration are chosen,          *)
(* ToDuration is applied.                                                  *)
(***************************************************************************)
\* dates around the ends of months, the leap day and the zones' transitions
AnchorDates ==
    {<<2023, 2, 28>>, <<2023, 12, 31>>, <<2024, 1, 31>>, <<2024, 2, 29>>,
     <<2024, 3, 3>>, <<2024, 3, 9>>, <<2024, 3, 24>>, <<2024, 8, 31>>,
     <<2024, 10, 20>>, <<2024, 11, 2>>}

\* 02:30:00 and 23:59:59
AnchorClocks == {9000, secondsPerDay - 1}

Locations == {UTC, NewYork, Berlin}

Anchors ==
    {Date(a[1], a[2], a[3], c, l) : a \in AnchorDates, c \in AnchorClocks, l \in Locations}

ExactInputs ==
    {Duration(y, mo, w, dd, h, 0, h \div (2 * MaxVal)) :
        y \in {0, 1}, mo \in {0, 1, MaxVal + 1}, w \in {0, 1}, dd \in {0, 1},
        h \in {0, 2 * MaxVal + 1}}
    \cup {Duration(2, 3, 1, 1, 2, 51, 12), Duration(4, 0, 0, 0, 0, 0, 0),
          Duration(4, 0, 0, 366, 0, 0, 0), Duration(0, 0, 0, 0, 0, 90, 0),
          Duration(0, 1, 0, 30, 0, 0, 0), Duration(0, 0, 4, 2, 0, 0, 0),
          Duration(292, 0, 0, 0, 0, 0, 0), Duration(292, 6, 0, 0, 0, 0, 0),
          Duration(300, 0, 0, 0, 0, 0, 0), Duration(0, 0, 0, 106751, 23, 47, 16),
          Duration(0, 0, 0, 106751, 23, 47, 17), Duration(0, 0, 15250, 1, 0, 0, 0),
          Duration(0, 0, 15250, 2, 0, 0, 0)}

InitExact ==
    /\ pc = "start"
    /\ NoThreads
    /\ recv \in ExactInputs
    /\ anchor \in Anchors
    /\ span = ToBytes(0, Int64Bytes)
    /\ dur = <<>>
    /\ res = NoResult
    /\ out = <<>>
    /\ rt = NoResult

\* span := recv.ToDuration(from)
CallToDuration ==
    /\ pc = "start"
    /\ span' = ToDuration(recv, anchor)
    /\ pc' = "done"
    /\ UNCHANGED <<dur, res, recv, out, rt, anchor, heap, published, th, pkg>>

NextExact == CallToDuration

SpecExact == InitExact /\ [][NextExact]_vars

\* the nanoseconds from instant u to instant t >= u, without wrapping
ElapsedWide(u, t) ==
    LET W    == WideBytes
        days == ToBytes(t[1] - u[1], W)
        secs == ToBytes(secondsPerDay + t[2] - u[2], W)
        back == NegW(ToBytes(secondsPerDay, W), W)
    IN  ScaleW(AddW(AddW(ScaleW(days, secondsPerDay, W), secs, W), back, W),
               1000000000, W)

\* an elapsed time as ToDuration can return it: itself if it fits an int64,
\* otherwise the largest int64
Saturated(wide) ==
    IF FitsInt64(wide) THEN SubSeq(wide, 1, Int64Bytes)
    ELSE [i \in 1..Int64Bytes |-> IF i = Int64Bytes THEN 127 ELSE 255]

\* the fixed-length increment of Hours, Minutes and Seconds, in seconds
ClockSeconds(d) == (d.Hours * 60 + d.Minutes) * 60 + d.Seconds

\* the instant of C5: years and months added in one calendar step, then
\* 7 * Weeks + Days days in one calendar step, then the clock increment
TargetOneDayStep(d, t) ==
    Add(AddDate(AddDate(t, d.Years, d.Months, 0), 0, 0, 7 * d.Weeks + d.Days),
        ClockSeconds(d)).unix

\* the same with the days of the weeks and the Days added in two calendar
\* steps, one after the other
TargetTwoDaySteps(d, t) ==
    Add(AddDate(AddDate(AddDate(t, d.Years, d.Months, 0), 0, 0, 7 * d.Weeks),
                0, 0, d.Days),
        ClockSeconds(d)).unix

\* the Gregorian calendar on its own: leap years, month lengths, and the
\* day number of a date counted from 1970-01-01
LeapYear(y) == y % 400 = 0 \/ (y % 4 = 0 /\ y % 100 # 0)

MonthLength(y, m) ==
    IF m = 2 THEN (IF LeapYear(y) THEN 29 ELSE 28)
    ELSE IF m \in {4, 6, 9, 11} THEN 30 ELSE 31

LeapYearsThrough(y) == (y \div 4) - (y \div 100) + (y \div 400)

DayNumber(y, m, dd) ==
    LET Before12[k \in 0..11] == IF k = 0 THEN 0 ELSE Before12[k - 1] + MonthLength(y, k)
    IN  365 * (y - 1970) + LeapYearsThrough(y - 1) - LeapYearsThrough(1969)
        + Before12[m - 1] + (dd - 1)

\* the date with a given day number
CivilDate(n) ==
    LET y == CHOOSE yy \in (1970 + n \div 366)..(1970 + n \div 365) :
                 DayNumber(yy, 1, 1) <= n /\ n < DayNumber(yy + 1, 1, 1)
        m == CHOOSE mm \in 1..12 :
                 /\ DayNumber(y, mm, 1) <= n
                 /\ n < DayNumber(y, mm, 1) + MonthLength(y, mm)
    IN  <<y, m, n - DayNumber(y, m, 1) + 1>>

\* for an anchor in UTC: the whole days from the anchor's date to the date
\* reached by moving the month by 12 * Years + Months, keeping the day of
\* the month (days past the month's end run into the next month), and then
\* going 7 * Weeks + Days days on
CivilDays(d, u) ==
    LET c   == CivilDate(u[1])
        idx == 12 * c[1] + (c[2] - 1) + 12 * d.Years + d.Months
    IN  DayNumber(idx \div 12, (idx % 12) + 1, 1) + (c[3] - 1)
        + 7 * d.Weeks + d.Days - u[1]

WallClock(t) == Shift(t.unix, Lookup(t.loc, t.unix).offset)[2]

Threads == {"t1", "t2"}

Methods == {"String", "HasTimePart", "ToEstimatedDuration", "ToDuration"}

\* the allocations of FromString the model follows
MaxAllocs == 1

\* the package-level variables: the compiled template and pattern
Package == [tmpl |-> "duration", full |-> SubexpNames]

\* NewDuration handing out one Duration kept for reuse, reset to zero
NewDurationReused(h) == [heap |-> [h EXCEPT ![1] = ZeroDuration], ptr |-> 1]

\* d := &Duration{}: a new Duration at an address not in use
NewDuration(h) == [heap |-> Append(h, ZeroDuration), ptr |-> Len(h) + 1]

NoReturn ==
    [nil |-> TRUE, ptr |-> 0, err |-> "nil", text |-> <<>>, flag |-> FALSE,
     span |-> <<>>]

Idle ==
    [pc |-> "idle", op |-> "", self |-> 0, idx |-> 0, local |-> ZeroDuration,
     text |-> <<>>, match |-> <<>>, from |-> NoAnchor, ret |-> NoReturn]

\* what a method returns for the field values d it has read
MethodResult(op, d, from) ==
    CASE op = "String"              -> [NoReturn EXCEPT !.text = String(d)]
      [] op = "HasTimePart"         -> [NoReturn EXCEPT !.flag = HasTimePart(d)]
      [] op = "ToEstimatedDuration" -> [NoReturn EXCEPT !.span = ToEstimatedDuration(d)]
      [] op = "ToDuration"          -> [NoReturn EXCEPT !.span = ToDuration(d, from)]

\* the first field a method reads: HasTimePart reads Hours, Minutes, Seconds
FirstField(op) == IF op = "HasTimePart" THEN 5 ELSE 1

SharedDurations == {Duration(1, 2, 0, 1, 0, MaxVal, 5)}

SharedTexts ==
    {<<"a", "s", "d", "f">>, <<"P", "2", "M", "T", "4", "M">>,
     <<"P", "1", "Y", "2", "1", "4", "7", "4", "8", "3", "6", "4", "8", "W">>}

SharedAnchors == {Date(2024, 3, 3, 9000, NewYork)}

Init ==
    /\ pc = "threads"
    /\ dur = <<>>
    /\ res = NoResult
    /\ recv = ZeroDuration
    /\ out = <<>>
    /\ rt = NoResult
    /\ span = <<>>
    /\ anchor = NoAnchor
    /\ heap \in {<<d>> : d \in SharedDurations}
    /\ published = {1}
    /\ th = [t \in Threads |-> Idle]
    /\ pkg = Package

\* thread t calls method op on the Duration at address p
Invoke(t, op, p, from) ==
    /\ th[t].pc \in {"idle", "returned"}
    /\ th' = [th EXCEPT ![t] =
                [Idle EXCEPT !.pc = "reading", !.op = op, !.self = p,
                             !.idx = FirstField(op), !.from = from]]
    /\ UNCHANGED <<heap, published, pkg, pc, dur, res, recv, out, rt, span, anchor>>

\* the method reads the next field of its receiver
ReadField(t) ==
    /\ th[t].pc = "reading"
    /\ th[t].idx <= Len(Fields)
    /\ LET f == Fields[th[t].idx]
       IN  th' = [th EXCEPT ![t].local[f] = heap[th[t].self][f],
                            ![t].idx = th[t].idx + 1]
    /\ UNCHANGED <<heap, published, pkg, pc, dur, res, recv, out, rt, span, anchor>>

\* the method returns
Return(t) ==
    /\ th[t].pc = "reading"
    /\ th[t].idx > Len(Fields)
    /\ th' = [th EXCEPT ![t].pc = "returned",
                        ![t].ret = MethodResult(th[t].op, th[t].local, th[t].from)]
    /\ UNCHANGED <<heap, published, pkg, pc, dur, res, recv, out, rt, span, anchor>>

\* thread t calls FromString(s)
InvokeFromString(t, s) ==
    /\ th[t].pc \in {"idle", "returned"}
    /\ Len(heap) - 1 < MaxAllocs
    /\ th' = [th EXCEPT ![t] = [Idle EXCEPT !.pc = "matching", !.op = "FromString",
                                            !.text = s]]
    /\ UNCHANGED <<heap, published, pkg, pc, dur, res, recv, out, rt, span, anchor>>

\* no match: ErrBadFormat
MatchFails(t) ==
    /\ th[t].pc = "matching"
    /\ ~MatchString(th[t].text)
    /\ th' = [th EXCEPT ![t].pc = "returned",
                        ![t].ret = [NoReturn EXCEPT !.err = "ErrBadFormat"]]
    /\ UNCHANGED <<heap, published, pkg, pc, dur, res, recv, out, rt, span, anchor>>

\* a match: the groups are taken and d is allocated
MatchAndAllocate(t) ==
    /\ th[t].pc = "matching"
    /\ MatchString(th[t].text)
    /\ LET a == NewDuration(heap)
       IN  /\ heap' = a.heap
           /\ th' = [th EXCEPT ![t].pc = "storing", ![t].self = a.ptr,
                               ![t].match = FindStringSubmatch(th[t].text),
                               ![t].idx = 0]
    /\ UNCHANGED <<published, pkg, pc, dur, res, recv, out, rt, span, anchor>>

\* the rounds of the loop that do something: those of a named group that
\* captured text (the others only continue)
Rounds(match) ==
    {i \in 1..(Len(SubexpNames) - 1) : SubexpNames[i + 1] # "" /\ match[i + 1] # <<>>}

\* the next such round from round i on (Len(SubexpNames) if there is none)
NextRound(match, i) ==
    SetMin({k \in Rounds(match) : k >= i} \cup {Len(SubexpNames)})

\* one round of the loop over the groups' names: Atoi, then the store into
\* d or the return of Atoi's error
LoopStep(t) ==
    /\ th[t].pc = "storing"
    /\ NextRound(th[t].match, th[t].idx) < Len(SubexpNames)
    /\ LET i    == NextRound(th[t].match, th[t].idx)
           name == SubexpNames[i + 1]
           a    == Atoi(th[t].match[i + 1])
       IN  IF a.err # "nil"
           THEN /\ th' = [th EXCEPT ![t].pc = "returned",
                                    ![t].ret = [NoReturn EXCEPT !.err = a.err]]
                /\ heap' = heap
           ELSE /\ th' = [th EXCEPT ![t].idx = i + 1]
                /\ heap' = [heap EXCEPT ![th[t].self] = SetField(@, name, a.val)]
    /\ UNCHANGED <<published, pkg, pc, dur, res, recv, out, rt, span, anchor>>

\* return d, nil: the caller now holds the address
ReturnDuration(t) ==
    /\ th[t].pc = "storing"
    /\ NextRound(th[t].match, th[t].idx) >= Len(SubexpNames)
    /\ th' = [th EXCEPT ![t].pc = "returned",
                        ![t].ret = [NoReturn EXCEPT !.nil = FALSE, !.ptr = th[t].self]]
    /\ published' = published \cup {th[t].self}
    /\ UNCHANGED <<heap, pkg, pc, dur, res, recv, out, rt, span, anchor>>

Next ==
    \/ \E t \in Threads, op \in Methods, p \in published, from \in SharedAnchors :
            Invoke(t, op, p, from)
    \/ \E t \in Threads : ReadField(t)
    \/ \E t \in Threads : Return(t)
    \/ \E t \in Threads, s \in SharedTexts : InvokeFromString(t, s)
    \/ \E t \in Threads : MatchFails(t)
    \/ \E t \in Threads : MatchAndAllocate(t)
    \/ \E t \in Threads : LoopStep(t)
    \/ \E t \in Threads : ReturnDuration(t)

Spec == Init /\ [][Next]_vars

\* a call that returns returns what the same call returns alone
ResultsAsAlone ==
    \A t \in Threads :
        (th[t].pc # "returned" /\ th'[t].pc = "returned") =>
            IF th[t].op = "FromString"
            THEN LET r == FromString(th[t].text)
                 IN  /\ th'[t].ret.nil = r.nil
                     /\ th'[t].ret.err = r.err
                     /\ ~r.nil => heap'[th'[t].ret.ptr] = r.val
            ELSE th'[t].ret = MethodResult(th[t].op, heap'[th[t].self], th[t].from)

\* no step changes a Duration a caller holds, nor the pattern and template
HeldUnchanged ==
    /\ \A a \in published : heap'[a] = heap[a]
    /\ pkg' = pkg

\* the address FromString returns is held by no caller yet and is the
\* Duration of no other call in progress
ReturnsFresh ==
    \A t \in Threads :
        (th[t].pc = "storing" /\ th'[t].pc = "returned" /\ ~th'[t].ret.nil)
            => /\ th'[t].ret.ptr \notin published
               /\ \A u \in Threads \ {t} :
                    th[u].pc = "storing" => th[u].self # th'[t].ret.ptr

\* C9: String, HasTimePart, ToEstimatedDuration and ToDuration leave their
\* Duration and the package's pattern and template unchanged under any
\* interleaving of calls, every call returns what it returns alone, and
\* every FromString returns a fresh Duration
C9_NoSharedMutation == [][HeldUnchanged /\ ReturnsFresh /\ ResultsAsAlone]_vars

C9_Witness ==
    /\ th["t1"].pc = "returned" /\ th["t1"].op = "String"
    /\ th["t2"].pc = "reading" /\ th["t2"].op = "ToDuration" /\ th["t2"].idx = 4
    /\ th["t1"].self = th["t2"].self
    /\ th["t1"].self > 1
    /\ Len(heap) = 1 + MaxAllocs

====
